---- MODULE Spec2Model ----
(***************************************************************************)
(* Model of music_log_analyzer.py: parse_log_line (a capturing regex used  *)
(* through re.split) and analyze_logs (collection loop, processing report, *)
(* zero-entries diagnostic, aggregation and per-minute time analysis).     *)
(* Text is modelled as sequences of one-character strings.                 *)
(***************************************************************************)
EXTENDS Integers, Sequences, FiniteSets, TLC

VARIABLES
    pc,            \* position inside analyze_logs
    file,          \* the lines of the input file consumed so far (raw bytes)
    line_count,    \* analyze_logs: line_count
    log_entries,   \* analyze_logs: log_entries
    entry,         \* analyze_logs: entry, the last value parse_log_line returned
    diag,          \* the 'Skipping malformed line' diagnostics printed so far
    out,           \* the other console output, in order
    exc,           \* the exception that escaped analyze_logs, or "none"
    res,           \* the figures computed by the aggregation and time analysis
    png            \* requests_per_minute.png has been written

vars == <<pc, file, line_count, log_entries, entry, diag, out, exc, res, png>>

(***************************************************************************)
(* Bounds                                                                  *)
(***************************************************************************)
\* a file has up to MaxLines lines drawn from Lines; a file none of whose
\* first MaxLines lines is accepted goes on with up to MaxTail lines drawn
\* from TailLines
MaxLines == 3
MaxTail == 2

(***************************************************************************)
(* Characters                                                              *)
(***************************************************************************)
SP == " "
NL == "\n"
QT == "\""
\* a byte that is not valid UTF-8, and what the two decoders make of it
BADBYTE == "<0xff>"
REPLCHAR == "<U+FFFD>"
LATINCHAR == "<U+00FF>"

Whitespace == {" ", "\t", "\n", "\r"}
Digits == {"0", "1", "2", "3", "4", "5", "6", "7", "8", "9"}

IsSpace(c) == c \in Whitespace
IsDigit(c) == c \in Digits

DigitVal(c) ==
    CASE c = "0" -> 0 [] c = "1" -> 1 [] c = "2" -> 2 [] c = "3" -> 3
      [] c = "4" -> 4 [] c = "5" -> 5 [] c = "6" -> 6 [] c = "7" -> 7
      [] c = "8" -> 8 [] c = "9" -> 9

\* s[a..b], empty when b < a
Slice(s, a, b) == IF b < a THEN <<>> ELSE SubSeq(s, a, b)

\* str.strip(): drops leading and trailing whitespace
RECURSIVE LStrip(_)
LStrip(s) ==
    IF s # <<>> /\ IsSpace(Head(s)) THEN LStrip(Tail(s)) ELSE s

RECURSIVE RStrip(_)
RStrip(s) ==
    IF s # <<>> /\ IsSpace(s[Len(s)]) THEN RStrip(Slice(s, 1, Len(s) - 1)) ELSE s

Strip(s) == RStrip(LStrip(s))

\* int() of a string of decimal digits; CPython refuses more than 4300 digits
IntMaxStrDigits == 4300

RECURSIVE PyInt(_)
PyInt(s) ==
    IF s = <<>> THEN 0 ELSE 10 * PyInt(Slice(s, 1, Len(s) - 1)) + DigitVal(s[Len(s)])

(***************************************************************************)
(* The regular expression of parse_log_line                                *)
(*   (\S+) (\S+) (\S+) \[(.*?)\] "(.*?)" (\d+) (\d+) "(.*?)" "(.*?)" (\d+) *)
(* as a sequence of elements: a literal character, a greedy capturing run  *)
(* of a character class ("S" = \S+, "D" = \d+) or a lazy capturing .*?     *)
(***************************************************************************)
Lit(c) == [t |-> "lit", c |-> c]
GrpS == [t |-> "greedy", c |-> "S"]
GrpD == [t |-> "greedy", c |-> "D"]
GrpL == [t |-> "lazy", c |-> "."]

Pattern ==
    << GrpS, Lit(SP), GrpS, Lit(SP), GrpS, Lit(SP),
       Lit("["), GrpL, Lit("]"), Lit(SP),
       Lit(QT), GrpL, Lit(QT), Lit(SP),
       GrpD, Lit(SP), GrpD, Lit(SP),
       Lit(QT), GrpL, Lit(QT), Lit(SP),
       Lit(QT), GrpL, Lit(QT), Lit(SP),
       GrpD >>

InClass(c, cls) ==
    CASE cls = "S" -> ~IsSpace(c)
      [] cls = "D" -> IsDigit(c)
      [] cls = "." -> c # NL

\* length of the longest run of characters of class cls starting at pos
RECURSIVE RunLen(_, _, _)
RunLen(l, pos, cls) ==
    IF pos <= Len(l) /\ InClass(l[pos], cls) THEN 1 + RunLen(l, pos + 1, cls) ELSE 0

NoMatch == [ok |-> FALSE, start |-> 0, end |-> 0, groups |-> <<>>]

\* Backtracking match of pat[pi..] at position pos of l: greedy runs try the
\* longest length first, lazy runs the shortest first; "end" is the anchor \Z.
\* `end` of the result is the position after the match.
RECURSIVE MatchFrom(_, _, _, _), TryGreedy(_, _, _, _, _), TryLazy(_, _, _, _, _, _)
MatchFrom(pat, l, pos, pi) ==
    IF pi > Len(pat)
    THEN [ok |-> TRUE, start |-> 0, end |-> pos, groups |-> <<>>]
    ELSE LET e == pat[pi] IN
         CASE e.t = "lit" ->
                IF pos <= Len(l) /\ l[pos] = e.c
                THEN MatchFrom(pat, l, pos + 1, pi + 1)
                ELSE NoMatch
           [] e.t = "greedy" ->
                LET n == RunLen(l, pos, e.c) IN
                IF n = 0 THEN NoMatch ELSE TryGreedy(pat, l, pos, pi, n)
           [] e.t = "lazy" ->
                TryLazy(pat, l, pos, pi, 0, RunLen(l, pos, e.c))
           [] e.t = "end" ->
                IF pos = Len(l) + 1 THEN MatchFrom(pat, l, pos, pi + 1) ELSE NoMatch

TryGreedy(pat, l, pos, pi, n) ==
    LET r == MatchFrom(pat, l, pos + n, pi + 1) IN
    IF r.ok
    THEN [r EXCEPT !.groups = <<Slice(l, pos, pos + n - 1)>> \o r.groups]
    ELSE IF n > 1 THEN TryGreedy(pat, l, pos, pi, n - 1) ELSE NoMatch

TryLazy(pat, l, pos, pi, n, max) ==
    LET r == MatchFrom(pat, l, pos + n, pi + 1) IN
    IF r.ok
    THEN [r EXCEPT !.groups = <<Slice(l, pos, pos + n - 1)>> \o r.groups]
    ELSE IF n < max THEN TryLazy(pat, l, pos, pi, n + 1, max) ELSE NoMatch

\* re.search from position `from`: the leftmost start at which Pattern matches
RECURSIVE Search(_, _)
Search(l, from) ==
    IF from > Len(l) THEN NoMatch
    ELSE LET r == MatchFrom(Pattern, l, from, 1) IN
         IF r.ok THEN [r EXCEPT !.start = from] ELSE Search(l, from + 1)

\* re.split(Pattern, l): the text between successive matches, interleaved
\* with the captured groups of each match
RECURSIVE SplitFrom(_, _)
SplitFrom(l, from) ==
    LET m == Search(l, from) IN
    IF m.ok
    THEN <<Slice(l, from, m.start - 1)>> \o m.groups \o SplitFrom(l, m.end)
    ELSE <<Slice(l, from, Len(l))>>

re_split(l) == SplitFrom(l, 1)

(***************************************************************************)
(* parse_log_line                                                          *)
(***************************************************************************)
None == [none |-> TRUE]

\* Python's parts[i]; sequences here start at 1
AtOffByOne(parts, i) == parts[i + 2]

At(parts, i) == parts[i + 1]

Entry(ip, timestamp, request, status, user_agent) ==
    [ip |-> ip, timestamp |-> timestamp, request |-> request,
     status |-> status, user_agent |-> user_agent]

\* line 53: timestamp == "-"
MissingTimestampNever(timestamp) == FALSE

MissingTimestamp(timestamp) == timestamp = <<"-">>

\* the value returned and whether the except branch printed its diagnostic
\* (int() is the one call that can raise after the length test)
parse_log_line(raw) ==
    LET line == Strip(raw) IN
    IF line = <<>> THEN [ret |-> None, printed |-> FALSE]
    ELSE LET parts == re_split(line) IN
         IF Len(parts) < 11 THEN [ret |-> None, printed |-> FALSE]
         ELSE IF Len(At(parts, 6)) > IntMaxStrDigits
              THEN [ret |-> None, printed |-> TRUE]
              ELSE IF MissingTimestamp(At(parts, 4))
                   THEN [ret |-> None, printed |-> FALSE]
                   ELSE [ret |-> Entry(At(parts, 1), At(parts, 4), At(parts, 5),
                                       PyInt(At(parts, 6)), At(parts, 9)),
                         printed |-> FALSE]

(***************************************************************************)
(* Input lines: the fields and the lines a file is made of                 *)
(***************************************************************************)
IP_A == <<"1", ".", "1">>
IP_B == <<"2", ".", "2">>
TS1 == <<"0", "1", "/", "0", "7", "/", "2", "0", "2", "5", ":", "0", "6", ":", "0", "0", ":", "0", "2">>
TS2 == <<"0", "1", "/", "0", "7", "/", "2", "0", "2", "5", ":", "0", "6", ":", "0", "0", ":", "4", "5">>
TS3 == <<"0", "1", "/", "0", "7", "/", "2", "0", "2", "5", ":", "0", "6", ":", "0", "2", ":", "1", "0">>
TS_INVALID == <<"3", "1", "/", "0", "2", "/", "2", "0", "2", "5", ":", "0", "6", ":", "0", "0", ":", "0", "0">>
TS_DASH == <<"-">>
REQ_FULL == <<"G", "E", "T", " ", "/", "a", " ", "H">>
REQ_ONE == <<"G", "E", "T">>
REQ_NONE == <<>>
ST_200 == <<"2", "0", "0">>
ST_404 == <<"4", "0", "4">>
UA_BOT_UPPER == <<"M", "o", "z", "i", "l", "l", "a", " ", "B", "O", "T", "/", "1", ".", "0">>
UA_BOT_LOWER == <<"m", "o", "z", "i", "l", "l", "a", " ", "b", "o", "t", "/", "1", ".", "0">>
UA_HUMAN == <<"M", "o", "z", "i", "l", "l", "a", "/", "5", ".", "0">>
UA_EMPTY == <<>>
JUNK == <<"j", "u", "n", "k">>

\* everything of a well-formed line up to and including the user agent
LogHead(ip, ts, req, st, ua) ==
    ip \o <<SP, "-", SP, "-", SP, "[">> \o ts \o <<"]", SP, QT>> \o req
       \o <<QT, SP>> \o st \o <<SP, "5", SP, QT, "-", QT, SP, QT>> \o ua \o <<QT>>

LogLine(ip, ts, req, st, ua) == LogHead(ip, ts, req, st, ua) \o <<SP, "7">>

LINE_BOT_UPPER == LogLine(IP_A, TS1, REQ_FULL, ST_200, UA_BOT_UPPER) \o <<NL>>
LINE_BOT_LOWER == LogLine(IP_B, TS2, REQ_FULL, ST_200, UA_BOT_LOWER) \o <<NL>>
LINE_ONE_TOKEN == LogLine(IP_B, TS3, REQ_ONE, ST_404, UA_EMPTY) \o <<NL>>
LINE_NO_TOKEN == <<SP, SP>> \o LogLine(IP_A, TS_INVALID, REQ_NONE, ST_404, UA_HUMAN) \o <<NL>>
LINE_DASH == LogLine(IP_A, TS_DASH, REQ_FULL, ST_200, UA_HUMAN) \o <<NL>>
LINE_BLANK == <<SP, NL>>
LINE_SHORT == LogHead(IP_A, TS1, REQ_FULL, ST_200, UA_HUMAN) \o <<NL>>
LINE_PREFIXED == JUNK \o <<SP>> \o LogLine(IP_B, TS1, REQ_FULL, ST_200, UA_HUMAN) \o <<NL>>
LINE_SUFFIXED == LogLine(IP_A, TS3, REQ_FULL, ST_200, UA_HUMAN) \o <<SP>> \o JUNK \o <<NL>>
LINE_UNDECODABLE == <<BADBYTE, SP, "x", NL>>

Lines ==
    { LINE_BOT_UPPER, LINE_BOT_LOWER, LINE_ONE_TOKEN, LINE_NO_TOKEN, LINE_DASH,
      LINE_BLANK, LINE_SHORT, LINE_PREFIXED, LINE_SUFFIXED, LINE_UNDECODABLE }

\* the lines that follow the first MaxLines lines of a file
TailLines == {LINE_BLANK, LINE_UNDECODABLE}

(***************************************************************************)
(* Text decoding of the file                                               *)
(***************************************************************************)
\* open(..., encoding='utf-8', errors='replace')
DecodeReplace(raw) ==
    [i \in DOMAIN raw |-> IF raw[i] = BADBYTE THEN REPLCHAR ELSE raw[i]]

\* open(log_file, 'r'): the locale's encoding, errors='strict'
LocaleEncodings == {"utf-8", "latin-1"}

HasBadByte(raw) == \E i \in DOMAIN raw : raw[i] = BADBYTE

\* the text layer decodes the file a chunk of 8192 bytes at a time; the files
\* here fit in the first chunk, so an undecodable byte anywhere in the file
\* fails the first read under a strict UTF-8 decoder
DecodeStrictFails(enc, f) ==
    enc = "utf-8" /\ \E k \in DOMAIN f : HasBadByte(f[k])

DecodeLocale(raw) ==
    [i \in DOMAIN raw |-> IF raw[i] = BADBYTE THEN LATINCHAR ELSE raw[i]]

(***************************************************************************)
(* analyze_logs: file check, collection loop, report, zero-entries exit    *)
(***************************************************************************)
Msg(tag, val) == [tag |-> tag, val |-> val]

NoResults ==
    [total |-> 0, unique |-> 0, top_ips |-> <<>>, is_bot |-> <<>>, bot_sum |-> 0,
     method_counts |-> <<>>, path_counts |-> <<>>, path_top |-> {},
     status_counts |-> <<>>, time_dropped |-> 0, requests_per_minute |-> <<>>,
     peak |-> <<>>]

Init ==
    /\ pc = "start"
    /\ file = <<>>
    /\ line_count = 0
    /\ log_entries = <<>>
    /\ entry = None
    /\ diag = <<>>
    /\ out = <<>>
    /\ exc = "none"
    /\ res = NoResults
    /\ png = FALSE

\* os.path.exists(log_file) is false
FileNotFound ==
    /\ pc = "start"
    /\ pc' = "done"
    /\ out' = out \o <<Msg("analyzing", 0), Msg("file_not_found", 0)>>
    /\ UNCHANGED <<file, line_count, log_entries, entry, diag, exc, res, png>>

OpenFile ==
    /\ pc = "start"
    /\ pc' = "reading"
    /\ out' = out \o <<Msg("analyzing", 0)>>
    /\ UNCHANGED <<file, line_count, log_entries, entry, diag, exc, res, png>>

\* line 88, parse_log_line(line), for every decoded line a file can contain
ParseTable ==
    [raw \in Lines \cup TailLines |-> parse_log_line(DecodeReplace(raw))]

\* the lines the k-th line of a file is drawn from
LinesAt(k) == IF k <= MaxLines THEN Lines ELSE TailLines

ReadLineSkipCount ==
    /\ pc = "reading"
    /\ \/ Len(file) < MaxLines
       \/ (Len(file) < MaxLines + MaxTail /\ log_entries = <<>>)
    /\ \E raw \in LinesAt(Len(file) + 1) :
         LET parsed == ParseTable[raw] IN
         /\ file' = Append(file, raw)
         /\ line_count' = IF parsed.ret # None THEN line_count + 1 ELSE line_count
         /\ entry' = parsed.ret
         /\ log_entries' = IF parsed.ret # None
                           THEN Append(log_entries, parsed.ret)
                           ELSE log_entries
         /\ diag' = IF parsed.printed THEN Append(diag, raw) ELSE diag
    /\ UNCHANGED <<pc, out, exc, res, png>>

\* one iteration of `for line in f`
ReadLine ==
    /\ pc = "reading"
    /\ \/ Len(file) < MaxLines
       \/ (Len(file) < MaxLines + MaxTail /\ log_entries = <<>>)
    /\ \E raw \in LinesAt(Len(file) + 1) :
         LET parsed == ParseTable[raw] IN
         /\ file' = Append(file, raw)
         /\ line_count' = line_count + 1
         /\ entry' = parsed.ret
         /\ log_entries' = IF parsed.ret # None
                           THEN Append(log_entries, parsed.ret)
                           ELSE log_entries
         /\ diag' = IF parsed.printed THEN Append(diag, raw) ELSE diag
    /\ UNCHANGED <<pc, out, exc, res, png>>

\* end of file: the processing report and the `if not log_entries` test
Report ==
    /\ pc = "reading"
    /\ out' = out \o << Msg("scanned", line_count),
                        Msg("valid", Len(log_entries)),
                        Msg("malformed", line_count - Len(log_entries)) >>
    /\ pc' = IF log_entries = <<>> THEN "no_entries" ELSE "traffic"
    /\ UNCHANGED <<file, line_count, log_entries, entry, diag, exc, res, png>>

EchoCount == 3

RECURSIVE EchoLinesAll(_, _)
EchoLinesAll(f, i) ==
    IF i > Len(f) THEN <<>>
    ELSE <<Msg("echo", <<i, Strip(DecodeLocale(f[i]))>>)>> \o EchoLinesAll(f, i + 1)

\* lines 104-109: `i: line.strip()` for the first EchoCount lines
RECURSIVE EchoLines(_, _)
EchoLines(f, i) ==
    IF i > Len(f) \/ i > EchoCount THEN <<>>
    ELSE <<Msg("echo", <<i, Strip(DecodeLocale(f[i]))>>)>> \o EchoLines(f, i + 1)

\* the 'No valid entries' diagnostic and the re-read of the first lines
NoEntries ==
    /\ pc = "no_entries"
    /\ \E enc \in LocaleEncodings :
         IF DecodeStrictFails(enc, file)
         THEN /\ out' = out \o <<Msg("no_valid_entries", 0)>>
              /\ exc' = "UnicodeDecodeError"
              /\ pc' = "raised"
         ELSE /\ out' = out \o <<Msg("no_valid_entries", 0)>> \o EchoLines(file, 1)
              /\ exc' = exc
              /\ pc' = "done"
    /\ UNCHANGED <<file, line_count, log_entries, entry, diag, res, png>>

(***************************************************************************)
(* Aggregation: Counter / most_common, bot detection, value_counts         *)
(***************************************************************************)
TopN == 10

Column(entries, field) == [i \in DOMAIN entries |-> entries[i][field]]

\* Counter(iterable): <<key, count>> pairs in order of first occurrence
CounterAdd(c, key) ==
    IF \E i \in DOMAIN c : c[i][1] = key
    THEN [i \in DOMAIN c |-> IF c[i][1] = key THEN <<key, c[i][2] + 1>> ELSE c[i]]
    ELSE Append(c, <<key, 1>>)

RECURSIVE Counter(_)
Counter(keys) ==
    IF keys = <<>> THEN <<>>
    ELSE CounterAdd(Counter(Slice(keys, 1, Len(keys) - 1)), keys[Len(keys)])

InsertByCountUnstable(sorted, item) ==
    LET before == {i \in DOMAIN sorted : sorted[i][2] > item[2]}
        k == Cardinality(before)
    IN  Slice(sorted, 1, k) \o <<item>> \o Slice(sorted, k + 1, Len(sorted))

\* sorted(items, key=count, reverse=True): stable, so an item goes behind
\* every item already placed whose count is not smaller
InsertByCount(sorted, item) ==
    LET before == {i \in DOMAIN sorted : sorted[i][2] >= item[2]}
        k == Cardinality(before)
    IN  Slice(sorted, 1, k) \o <<item>> \o Slice(sorted, k + 1, Len(sorted))

RECURSIVE SortedByCount(_)
SortedByCount(items) ==
    IF items = <<>> THEN <<>>
    ELSE InsertByCount(SortedByCount(Slice(items, 1, Len(items) - 1)), items[Len(items)])

\* Counter.most_common(n) = heapq.nlargest(n, items, key=count)
\*                        = sorted(items, key=count, reverse=True)[:n]
most_common(c, n) ==
    LET s == SortedByCount(c) IN Slice(s, 1, IF Len(s) < n THEN Len(s) ELSE n)

bot_keywords ==
    << <<"b", "o", "t">>,
       <<"c", "r", "a", "w", "l">>,
       <<"s", "p", "i", "d", "e", "r">>,
       <<"s", "c", "r", "a", "p", "e", "r">>,
       <<"m", "o", "n", "i", "t", "o", "r", "i", "n", "g">>,
       <<"p", "y", "t", "h", "o", "n">>,
       <<"c", "u", "r", "l">>,
       <<"w", "g", "e", "t">> >>

LowerOf ==
    "A" :> "a" @@ "B" :> "b" @@ "C" :> "c" @@ "D" :> "d" @@ "E" :> "e" @@
    "F" :> "f" @@ "G" :> "g" @@ "H" :> "h" @@ "I" :> "i" @@ "J" :> "j" @@
    "K" :> "k" @@ "L" :> "l" @@ "M" :> "m" @@ "N" :> "n" @@ "O" :> "o" @@
    "P" :> "p" @@ "Q" :> "q" @@ "R" :> "r" @@ "S" :> "s" @@ "T" :> "t" @@
    "U" :> "u" @@ "V" :> "v" @@ "W" :> "w" @@ "X" :> "x" @@ "Y" :> "y" @@
    "Z" :> "z"

LowerIdentity(s) == s

\* str.lower()
Lower(s) == [i \in DOMAIN s |-> IF s[i] \in DOMAIN LowerOf THEN LowerOf[s[i]] ELSE s[i]]

\* kw occurs in s as a substring
Contains(s, kw) ==
    \E i \in 1..(Len(s) - Len(kw) + 1) : SubSeq(s, i, i + Len(kw) - 1) = kw

\* .str.lower().str.contains('|'.join(bot_keywords)) for one user agent
IsBot(user_agent) ==
    \E k \in DOMAIN bot_keywords : Contains(Lower(user_agent), bot_keywords[k])

\* Series.sum() of a boolean column
RECURSIVE SumTrue(_)
SumTrue(col) ==
    IF col = <<>> THEN 0
    ELSE SumTrue(Tail(col)) + (IF Head(col) THEN 1 ELSE 0)

\* str.split(): the maximal runs of non-whitespace characters
RECURSIVE Tokens(_)
Tokens(s) ==
    LET t == LStrip(s) IN
    IF t = <<>> THEN <<>>
    ELSE LET n == RunLen(t, 1, "S") IN
         <<Slice(t, 1, n)>> \o Tokens(Slice(t, n + 1, Len(t)))

\* a cell of a column: a value, or NaN
Cell(v) == [na |-> FALSE, v |-> v]
NaN == [na |-> TRUE, v |-> <<>>]

\* .str[i] on a list: the element, NaN when the list is too short
StrGet(list, i) == IF i + 1 <= Len(list) THEN Cell(list[i + 1]) ELSE NaN

value_counts_keepna(col) ==
    LET vals == {col[i].v : i \in DOMAIN col}
    IN  [v \in vals |-> Cardinality({i \in DOMAIN col : col[i].v = v})]

\* Series.value_counts(): one count per distinct value, NaN left out
value_counts(col) ==
    LET present == {i \in DOMAIN col : ~col[i].na}
        vals == {col[i].v : i \in present}
    IN  [v \in vals |-> Cardinality({i \in present : col[i].v = v})]

\* the index sets .head(n) can keep of a table sorted by descending count
\* (the order among equal counts is not fixed by value_counts)
HeadSets(counts, n) ==
    LET k == IF Cardinality(DOMAIN counts) < n THEN Cardinality(DOMAIN counts) ELSE n IN
    {S \in SUBSET DOMAIN counts :
        /\ Cardinality(S) = k
        /\ \A v \in S : \A w \in (DOMAIN counts) \ S : counts[v] >= counts[w]}

\* lines 113-124: DataFrame, totals, top 10 IPs
TrafficAnalysis ==
    /\ pc = "traffic"
    /\ LET ip_counts == Counter(Column(log_entries, "ip")) IN
       /\ res' = [res EXCEPT !.total = Len(log_entries),
                             !.unique = Len(ip_counts),
                             !.top_ips = most_common(ip_counts, TopN)]
       /\ out' = out \o <<Msg("traffic", Len(log_entries)), Msg("top_ips", 0)>>
    /\ pc' = "bots"
    /\ UNCHANGED <<file, line_count, log_entries, entry, diag, exc, png>>

\* lines 126-130
BotDetection ==
    /\ pc = "bots"
    /\ LET is_bot == [i \in DOMAIN log_entries |-> IsBot(log_entries[i].user_agent)] IN
       /\ res' = [res EXCEPT !.is_bot = is_bot, !.bot_sum = SumTrue(is_bot)]
       /\ out' = out \o <<Msg("bots", SumTrue(is_bot))>>
    /\ pc' = "requests"
    /\ UNCHANGED <<file, line_count, log_entries, entry, diag, exc, png>>

\* lines 132-143
RequestAnalysis ==
    /\ pc = "requests"
    /\ LET method == [i \in DOMAIN log_entries |-> StrGet(Tokens(log_entries[i].request), 0)]
           path == [i \in DOMAIN log_entries |-> StrGet(Tokens(log_entries[i].request), 1)]
           status == [i \in DOMAIN log_entries |-> Cell(log_entries[i].status)]
       IN  \E top \in HeadSets(value_counts(path), TopN) :
             res' = [res EXCEPT !.method_counts = value_counts(method),
                                !.path_counts = value_counts(path),
                                !.path_top = top,
                                !.status_counts = value_counts(status)]
    /\ out' = out \o <<Msg("methods", 0), Msg("paths", 0), Msg("statuses", 0)>>
    /\ pc' = "time"
    /\ UNCHANGED <<file, line_count, log_entries, entry, diag, exc, png>>

(***************************************************************************)
(* Time analysis: to_datetime, dropna, resample('T').size(), idxmax        *)
(***************************************************************************)
IsLeap(y) == (y % 4 = 0 /\ y % 100 # 0) \/ y % 400 = 0

DaysInMonth(y, m) ==
    IF m = 2 THEN (IF IsLeap(y) THEN 29 ELSE 28)
    ELSE IF m \in {4, 6, 9, 11} THEN 30 ELSE 31

\* days from 1970-01-01 to the civil date y-m-d
DaysFromCivil(y, m, d) ==
    LET yy == IF m <= 2 THEN y - 1 ELSE y
        era == yy \div 400
        yoe == yy - era * 400
        mp == IF m > 2 THEN m - 3 ELSE m + 9
        doy == (153 * mp + 2) \div 5 + d - 1
        doe == yoe * 365 + yoe \div 4 - yoe \div 100 + doy
    IN  era * 146097 + doe - 719468

MinuteOf(y, m, d, hh, mm) == DaysFromCivil(y, m, d) * 1440 + hh * 60 + mm

\* format='%d/%m/%Y:%H:%M:%S': the digits each directive takes, its range
\* and the literal that follows it
Format ==
    << [lo |-> 1, hi |-> 2, min |-> 1, max |-> 31, sep |-> "/"],
       [lo |-> 1, hi |-> 2, min |-> 1, max |-> 12, sep |-> "/"],
       [lo |-> 4, hi |-> 4, min |-> 0, max |-> 9999, sep |-> ":"],
       [lo |-> 1, hi |-> 2, min |-> 0, max |-> 23, sep |-> ":"],
       [lo |-> 1, hi |-> 2, min |-> 0, max |-> 59, sep |-> ":"],
       [lo |-> 1, hi |-> 2, min |-> 0, max |-> 61, sep |-> ""] >>

BadFields == <<-1>>

\* the numbers of the directives Format[k..] read from ts at pos; BadFields
\* when ts does not have that layout
RECURSIVE ScanFields(_, _, _)
ScanFields(ts, pos, k) ==
    IF k > Len(Format) THEN (IF pos = Len(ts) + 1 THEN <<>> ELSE BadFields)
    ELSE LET f == Format[k]
             n == RunLen(ts, pos, "D")
             v == PyInt(Slice(ts, pos, pos + n - 1))
             after == pos + n + (IF f.sep = "" THEN 0 ELSE 1)
             sepOK == f.sep = "" \/ (pos + n <= Len(ts) /\ ts[pos + n] = f.sep)
         IN  IF n < f.lo \/ n > f.hi THEN BadFields
             ELSE IF v < f.min \/ v > f.max \/ ~sepOK THEN BadFields
             ELSE LET rest == ScanFields(ts, after, k + 1) IN
                  IF rest = BadFields THEN BadFields ELSE <<v>> \o rest

NaT == [nat |-> TRUE, minute |-> 0, second |-> 0]

\* the range of a nanosecond Timestamp:
\* 1677-09-21 00:12:43.145224193 .. 2262-04-11 23:47:16.854775807
TimestampMin == [minute |-> MinuteOf(1677, 9, 21, 0, 12), second |-> 44]
TimestampMax == [minute |-> MinuteOf(2262, 4, 11, 23, 47), second |-> 16]

InBounds(minute, second) ==
    /\ \/ minute > TimestampMin.minute
       \/ (minute = TimestampMin.minute /\ second >= TimestampMin.second)
    /\ \/ minute < TimestampMax.minute
       \/ (minute = TimestampMax.minute /\ second <= TimestampMax.second)

\* pd.to_datetime(ts, format=..., errors='coerce') for one value
to_datetime(ts) ==
    LET f == ScanFields(ts, 1, 1) IN
    IF f = BadFields THEN NaT
    ELSE IF f[1] > DaysInMonth(f[3], f[2]) \/ f[6] > 59 THEN NaT
    ELSE LET minute == MinuteOf(f[3], f[2], f[1], f[4], f[5]) IN
         IF InBounds(minute, f[6])
         THEN [nat |-> FALSE, minute |-> minute, second |-> f[6]]
         ELSE NaT

\* dropna(subset=['datetime'])
NotNaT(dt) == ~dt.nat

\* the datetime index sorted ascending (the time grouper sorts its axis)
Earlier(a, b) == a.minute < b.minute \/ (a.minute = b.minute /\ a.second <= b.second)

InsertByTime(sorted, dt) ==
    LET k == Cardinality({i \in DOMAIN sorted : Earlier(sorted[i], dt)}) IN
    Slice(sorted, 1, k) \o <<dt>> \o Slice(sorted, k + 1, Len(sorted))

RECURSIVE SortedByTime(_)
SortedByTime(dts) ==
    IF dts = <<>> THEN <<>>
    ELSE InsertByTime(SortedByTime(Slice(dts, 1, Len(dts) - 1)), dts[Len(dts)])

\* the one-minute bins from b to last: each takes the leading sorted values
\* that fall before the next bin edge
RECURSIVE BinSizes(_, _, _)
BinSizes(sorted, b, last) ==
    IF b > last THEN <<>>
    ELSE LET n == Cardinality({i \in DOMAIN sorted : sorted[i].minute < b + 1}) IN
         <<<<b, n>>>> \o BinSizes(Slice(sorted, n + 1, Len(sorted)), b + 1, last)

\* resample('T').size(): <<bin start, count>> from the first to the last minute
resample_size(dts) ==
    LET sorted == SortedByTime(dts) IN
    BinSizes(sorted, sorted[1].minute, sorted[Len(sorted)].minute)

\* Series.max() and Series.idxmax(): the first label holding the maximum
SeriesMax(series) ==
    CHOOSE c \in {series[i][2] : i \in DOMAIN series} :
        \A i \in DOMAIN series : series[i][2] <= c

idxmaxLast(series) ==
    LET last == CHOOSE i \in DOMAIN series :
                   /\ series[i][2] = SeriesMax(series)
                   /\ \A j \in (i + 1)..Len(series) : series[j][2] # SeriesMax(series)
    IN  series[last][1]

idxmax(series) ==
    LET first == CHOOSE i \in DOMAIN series :
                    /\ series[i][2] = SeriesMax(series)
                    /\ \A j \in 1..(i - 1) : series[j][2] # SeriesMax(series)
    IN  series[first][1]

\* lines 145-185; the chart calls may fail, which the except clause reports
TimeAnalysis ==
    /\ pc = "time"
    /\ LET datetime == [i \in DOMAIN log_entries |-> to_datetime(log_entries[i].timestamp)]
           valid_time_logs == SelectSeq(datetime, NotNaT)
           time_dropped == Len(datetime) - Len(valid_time_logs)
           note == IF time_dropped > 0 THEN <<Msg("dropped", time_dropped)>> ELSE <<>>
       IN  IF Len(valid_time_logs) > 0
           THEN LET requests_per_minute == resample_size(valid_time_logs) IN
                \E chart_ok \in BOOLEAN :
                  IF chart_ok
                  THEN /\ res' = [res EXCEPT
                                    !.time_dropped = time_dropped,
                                    !.requests_per_minute = requests_per_minute,
                                    !.peak = <<idxmax(requests_per_minute),
                                               SeriesMax(requests_per_minute)>>]
                       /\ png' = TRUE
                       /\ out' = out \o note \o <<Msg("saved_graph", 0), Msg("busiest", 0)>>
                  ELSE /\ res' = [res EXCEPT
                                    !.time_dropped = time_dropped,
                                    !.requests_per_minute = requests_per_minute]
                       /\ png' = png
                       /\ out' = out \o note \o <<Msg("could_not_generate", 0)>>
           ELSE /\ res' = [res EXCEPT !.time_dropped = time_dropped]
                /\ png' = png
                /\ out' = out \o note \o <<Msg("no_valid_timestamps", 0)>>
    /\ pc' = "done"
    /\ UNCHANGED <<file, line_count, log_entries, entry, diag, exc>>

Next ==
    \/ FileNotFound
    \/ OpenFile
    \/ ReadLine
    \/ Report
    \/ NoEntries
    \/ TrafficAnalysis
    \/ BotDetection
    \/ RequestAnalysis
    \/ TimeAnalysis

Spec == Init /\ [][Next]_vars

(***************************************************************************)
(* The top-10 IP listing on its own: the collected records are drawn from  *)
(* a family with up to MaxIPs distinct addresses                           *)
(***************************************************************************)
MaxIPs == 12

DigitChar == <<"0", "1", "2", "3", "4", "5", "6", "7", "8", "9">>

IpOf(i) == <<"9", ".", DigitChar[(i \div 10) + 1], DigitChar[(i % 10) + 1]>>

\* n addresses first seen in the order r+1, ..., n, 1, ..., r, then one more
\* request from x and one more from y
IpFamily(n, r, x, y) ==
    [k \in 1..n |-> IpOf(((k - 1 + r) % n) + 1)] \o <<IpOf(x), IpOf(y)>>

EntriesOf(ips) ==
    [k \in DOMAIN ips |-> Entry(ips[k], TS1, REQ_FULL, 200, UA_HUMAN)]

InitTop ==
    /\ pc = "traffic"
    /\ file = <<>>
    /\ \E n \in 1..MaxIPs : \E r \in 0..(n - 1) : \E x \in 1..n : \E y \in 1..n :
         log_entries = EntriesOf(IpFamily(n, r, x, y))
    /\ line_count = Len(log_entries)
    /\ entry = log_entries[Len(log_entries)]
    /\ diag = <<>>
    /\ out = <<>>
    /\ exc = "none"
    /\ res = NoResults
    /\ png = FALSE

NextTop == TrafficAnalysis

SpecTop == InitTop /\ [][NextTop]_vars

(***************************************************************************)
(* Properties                                                              *)
(***************************************************************************)
LastRaw == file[Len(file)]

\* the first match of the pattern in the trimmed text of each line
FirstMatch ==
    [raw \in Lines \cup TailLines |-> Search(Strip(DecodeReplace(raw)), 1)]

Tags(o) == [i \in DOMAIN o |-> o[i].tag]
Min2(a, b) == IF a < b THEN a ELSE b

\* the file existed and was read to its end
Reported == Len(out) >= 4 /\ out[2].tag = "scanned"

EntryFields == {"ip", "timestamp", "request", "status", "user_agent"}

\* C1: a line in which the pattern matches with a timestamp other than "-"
\* yields a record whose ip, timestamp, request and user_agent are groups 1,
\* 4, 5 and 9 of the match and whose status is the integer value of group 6;
\* whatever is returned is None or a record with all five fields.
C1_RecordIsCapturedGroups ==
    file # <<>> =>
        LET m == FirstMatch[LastRaw] IN
        /\ (m.ok /\ m.groups[4] # <<"-">>) =>
              entry = [ip |-> m.groups[1], timestamp |-> m.groups[4],
                       request |-> m.groups[5], status |-> PyInt(m.groups[6]),
                       user_agent |-> m.groups[9]]
        /\ entry # None => DOMAIN entry = EntryFields
        /\ \A i \in DOMAIN log_entries : DOMAIN log_entries[i] = EntryFields
        /\ LastRaw = LINE_BOT_UPPER =>
              entry = [ip |-> IP_A, timestamp |-> TS1, request |-> REQ_FULL,
                       status |-> 200, user_agent |-> UA_BOT_UPPER]
        /\ LastRaw = LINE_ONE_TOKEN =>
              entry = [ip |-> IP_B, timestamp |-> TS3, request |-> REQ_ONE,
                       status |-> 404, user_agent |-> UA_EMPTY]

C1_Witness ==
    /\ file # <<>>
    /\ LastRaw = LINE_ONE_TOKEN
    /\ entry # None
    /\ entry.status = 404
    /\ entry.user_agent = <<>>

\* the log grammar as a whole-line match: the pattern anchored at both ends
Grammar == Pattern \o <<[t |-> "end", c |-> ""]>>

FullMatch ==
    [raw \in Lines \cup TailLines |->
        MatchFrom(Grammar, Strip(DecodeReplace(raw)), 1, 1).ok]

\* C2: a line whose trimmed content does not match the grammar as a whole
\* (blank, a field missing, extra text before or after a well-formed entry)
\* is rejected, and no 'Skipping malformed line' diagnostic is printed.
C2_NonMatchingRejectedSilently ==
    (file # <<>> /\ ~FullMatch[LastRaw]) => (entry = None /\ diag = <<>>)

\* C3: a line in which the pattern matches with the timestamp "-" is rejected
\* without a diagnostic, and no collected record has the timestamp "-".
C3_DashTimestampRejected ==
    /\ file # <<>> =>
          LET m == FirstMatch[LastRaw] IN
          (m.ok /\ m.groups[4] = <<"-">>) => (entry = None /\ diag = <<>>)
    /\ \A i \in DOMAIN log_entries : log_entries[i].timestamp # <<"-">>

C3_Witness ==
    /\ file # <<>>
    /\ LastRaw = LINE_DASH
    /\ entry = None
    /\ Len(log_entries) = Len(file) - 1
    /\ Len(log_entries) > 0

AggregationTags ==
    {"traffic", "top_ips", "bots", "methods", "paths", "statuses", "dropped",
     "saved_graph", "busiest", "could_not_generate", "no_valid_timestamps"}

\* C4: with zero accepted records the output is the processing report, the
\* 'No valid entries' diagnostic and then the first lines of the file in file
\* order, at most 3 of them (each as `i: trimmed text`); nothing of the
\* aggregation is printed or computed and the chart file is not written.
C4_ZeroEntriesStops ==
    (Reported /\ log_entries = <<>>) =>
        /\ pc \in {"no_entries", "done", "raised"}
        /\ png = FALSE
        /\ res = NoResults
        /\ \A i \in DOMAIN out : out[i].tag \notin AggregationTags
        /\ SubSeq(Tags(out), 1, 4) = <<"analyzing", "scanned", "valid", "malformed">>
        /\ pc = "no_entries" => Len(out) = 4
        /\ pc # "no_entries" =>
              /\ out[5].tag = "no_valid_entries"
              /\ Len(out) - 5 <= EchoCount
              /\ Len(out) - 5 <= Len(file)
              /\ \A i \in 1..(Len(out) - 5) :
                    /\ out[5 + i].tag = "echo"
                    /\ out[5 + i].val = <<i, Strip(DecodeLocale(file[i]))>>
        /\ pc = "done" => Len(out) - 5 = Min2(EchoCount, Len(file))

C4_Witness ==
    /\ Reported
    /\ log_entries = <<>>
    /\ pc = "done"
    /\ Len(file) > EchoCount
    /\ Len(out) = 5 + EchoCount
    /\ out[8].val = <<3, Strip(DecodeLocale(file[3]))>>

\* the records parse_log_line returns for the accepted lines of f, in order
RECURSIVE AcceptedOf(_)
AcceptedOf(f) ==
    IF f = <<>> THEN <<>>
    ELSE LET r == ParseTable[f[Len(f)]].ret IN
         AcceptedOf(SubSeq(f, 1, Len(f) - 1)) \o (IF r = None THEN <<>> ELSE <<r>>)

\* C5: after k lines have been consumed line_count = k and log_entries is
\* the sequence, in file order, of the records of the accepted lines among
\* them; the report's valid and malformed counts add up to the lines
\* scanned, and the malformed count is not negative.
C5_CollectionLoop ==
    /\ line_count = Len(file)
    /\ log_entries = AcceptedOf(file)
    /\ Reported =>
          /\ out[2].val = Len(file)
          /\ out[3].tag = "valid" /\ out[3].val = Len(log_entries)
          /\ out[4].tag = "malformed" /\ out[4].val >= 0
          /\ out[3].val + out[4].val = out[2].val

C5_Witness ==
    /\ Reported
    /\ Len(file) = 3
    /\ Len(log_entries) = 2
    /\ file[2] = LINE_SHORT
    /\ out[4].val = 1

UpperOf ==
    "a" :> "A" @@ "b" :> "B" @@ "c" :> "C" @@ "d" :> "D" @@ "e" :> "E" @@
    "f" :> "F" @@ "g" :> "G" @@ "h" :> "H" @@ "i" :> "I" @@ "j" :> "J" @@
    "k" :> "K" @@ "l" :> "L" @@ "m" :> "M" @@ "n" :> "N" @@ "o" :> "O" @@
    "p" :> "P" @@ "q" :> "Q" @@ "r" :> "R" @@ "s" :> "S" @@ "t" :> "T" @@
    "u" :> "U" @@ "v" :> "V" @@ "w" :> "W" @@ "x" :> "X" @@ "y" :> "Y" @@
    "z" :> "Z"

Upper(s) == [i \in DOMAIN s |-> IF s[i] \in DOMAIN UpperOf THEN UpperOf[s[i]] ELSE s[i]]

DownOf ==
    [c \in {UpperOf[x] : x \in DOMAIN UpperOf} |->
        CHOOSE x \in DOMAIN UpperOf : UpperOf[x] = c]

\* s with every upper-case letter made lower-case, letter by letter
Lowered(s) == [i \in DOMAIN s |-> IF s[i] \in DOMAIN DownOf THEN DownOf[s[i]] ELSE s[i]]

BotDetected == pc \in {"requests", "time", "done"} /\ log_entries # <<>>

\* C6: a record is classified as a bot exactly when a keyword is a substring
\* of its lower-cased user agent; the classification does not change with
\* the letter case of the user agent; an empty user agent is not a bot; the
\* bot count is the number of records classified as bot.
C6_BotClassification ==
    BotDetected =>
        /\ Len(res.is_bot) = Len(log_entries)
        /\ \A i \in DOMAIN log_entries :
              LET ua == log_entries[i].user_agent IN
              /\ res.is_bot[i] <=>
                    \E k \in DOMAIN bot_keywords :
                        \E a \in 0..Len(ua) :
                            /\ a + Len(bot_keywords[k]) <= Len(ua)
                            /\ \A j \in 1..Len(bot_keywords[k]) :
                                  Lowered(ua)[a + j] = bot_keywords[k][j]
              /\ res.is_bot[i] = IsBot(Upper(ua))
              /\ res.is_bot[i] = IsBot(Lowered(ua))
              /\ ua = <<>> => ~res.is_bot[i]
        /\ res.bot_sum = Cardinality({i \in DOMAIN res.is_bot : res.is_bot[i]})
        /\ \E i \in DOMAIN out : out[i].tag = "bots" /\ out[i].val = res.bot_sum

C6_Witness ==
    /\ BotDetected
    /\ Len(log_entries) = 3
    /\ log_entries[1].user_agent = UA_BOT_UPPER
    /\ log_entries[2].user_agent = UA_EMPTY
    /\ log_entries[3].user_agent = UA_BOT_LOWER
    /\ res.is_bot = <<TRUE, FALSE, TRUE>>
    /\ res.bot_sum = 2

IpCount(ips, ip) == Cardinality({k \in DOMAIN ips : ips[k] = ip})

FirstSeen(ips, ip) ==
    CHOOSE k \in DOMAIN ips : ips[k] = ip /\ \A j \in 1..(k - 1) : ips[j] # ip

\* a is listed before b: more requests, or as many and seen earlier
RanksAbove(ips, a, b) ==
    \/ IpCount(ips, a) > IpCount(ips, b)
    \/ (IpCount(ips, a) = IpCount(ips, b) /\ FirstSeen(ips, a) < FirstSeen(ips, b))

TopListed == pc = "bots"

\* C7: the top-10 listing has min(10, distinct ips) entries, each with its
\* request count, ordered by descending count with equal counts in order of
\* first occurrence; every ip left out ranks below every ip listed.
C7_TopTenStable ==
    TopListed =>
        LET ips == Column(log_entries, "ip")
            top == res.top_ips
            distinct == {ips[k] : k \in DOMAIN ips}
            listed == {top[i][1] : i \in DOMAIN top}
        IN  /\ Len(top) = Min2(TopN, Cardinality(distinct))
            /\ listed \subseteq distinct
            /\ \A i \in DOMAIN top : top[i][2] = IpCount(ips, top[i][1])
            /\ \A i \in DOMAIN top : \A j \in DOMAIN top :
                  i < j => RanksAbove(ips, top[i][1], top[j][1])
            /\ \A ip \in distinct \ listed : \A i \in DOMAIN top :
                  RanksAbove(ips, top[i][1], ip)

C7_Witness ==
    /\ TopListed
    /\ LET ips == Column(log_entries, "ip")
           top == res.top_ips
           distinct == {ips[k] : k \in DOMAIN ips}
           listed == {top[i][1] : i \in DOMAIN top}
       IN  /\ Cardinality(distinct) > TopN
           /\ Len(top) = TopN
           /\ top[1][2] = 2 /\ top[2][2] = 2
           /\ FirstSeen(ips, top[1][1]) > 3
           /\ \E ip \in distinct \ listed : IpCount(ips, ip) = top[TopN][2]

PeakReported == pc = "done" /\ res.peak # <<>>

ValidTimes ==
    SelectSeq([i \in DOMAIN log_entries |-> to_datetime(log_entries[i].timestamp)], NotNaT)

RECURSIVE SumSeries(_)
SumSeries(series) ==
    IF series = <<>> THEN 0 ELSE series[1][2] + SumSeries(Tail(series))

\* C8: whatever the order of the records, each record with a valid datetime
\* is counted in the one bucket of its minute, the bucket counts add up to
\* the number of such records, and the busiest minute reported is the
\* earliest of the buckets with the largest count.
C8_MinuteBuckets ==
    PeakReported =>
        LET dts == ValidTimes
            rpm == res.requests_per_minute
        IN  /\ \A p \in DOMAIN rpm :
                  rpm[p][2] = Cardinality({i \in DOMAIN dts : dts[i].minute = rpm[p][1]})
            /\ \A i \in DOMAIN dts :
                  Cardinality({p \in DOMAIN rpm : rpm[p][1] = dts[i].minute}) = 1
            /\ SumSeries(rpm) = Len(dts)
            /\ Len(dts) = Len(log_entries) - res.time_dropped
            /\ \A i \in DOMAIN log_entries :
                  log_entries[i].timestamp = TS2 =>
                      \E k \in DOMAIN dts : dts[k].minute = MinuteOf(2025, 7, 1, 6, 0)
            /\ \A i \in DOMAIN log_entries :
                  log_entries[i].timestamp = TS3 =>
                      \E k \in DOMAIN dts : dts[k].minute = MinuteOf(2025, 7, 1, 6, 2)
            /\ \E p \in DOMAIN rpm :
                  /\ res.peak = rpm[p]
                  /\ \A q \in DOMAIN rpm : rpm[q][2] <= rpm[p][2]
                  /\ \A q \in DOMAIN rpm : rpm[q][2] = rpm[p][2] => rpm[p][1] <= rpm[q][1]

C8_Witness ==
    /\ PeakReported
    /\ Len(log_entries) = 3
    /\ log_entries[1].timestamp = TS3
    /\ log_entries[2].timestamp = TS_INVALID
    /\ log_entries[3].timestamp = TS2
    /\ res.peak = <<MinuteOf(2025, 7, 1, 6, 0), 1>>
    /\ Len(res.requests_per_minute) = 3

\* C9: no exception escapes analyze_logs, whatever the file.
C9_NoExceptionEscapes == exc = "none"

RECURSIVE SumOver(_, _)
SumOver(f, S) ==
    IF S = {} THEN 0
    ELSE LET v == CHOOSE v \in S : TRUE IN f[v] + SumOver(f, S \ {v})

SumCounts(f) == SumOver(f, DOMAIN f)

RequestsCounted == pc \in {"time", "done"} /\ log_entries # <<>>

\* C10 as stated: records without a method or a path are counted under a
\* category of their own, so each table's counts add up to the number of
\* accepted records.
C10_AllRecordsCounted ==
    RequestsCounted =>
        /\ SumCounts(res.method_counts) = Len(log_entries)
        /\ SumCounts(res.path_counts) = Len(log_entries)
        /\ SumCounts(res.status_counts) = Len(log_entries)

\* C10 amended: the method table counts the records whose request has a
\* first token, the path table those with a second token, the status table
\* all records; a record without the value is in no category of that table.
C10_AbsentValuesDropped ==
    RequestsCounted =>
        LET toks == [i \in DOMAIN log_entries |-> Tokens(log_entries[i].request)]
            withMethod == {i \in DOMAIN toks : Len(toks[i]) >= 1}
            withPath == {i \in DOMAIN toks : Len(toks[i]) >= 2}
        IN  /\ SumCounts(res.method_counts) = Cardinality(withMethod)
            /\ SumCounts(res.path_counts) = Cardinality(withPath)
            /\ SumCounts(res.status_counts) = Len(log_entries)
            /\ DOMAIN res.method_counts = {toks[i][1] : i \in withMethod}
            /\ DOMAIN res.path_counts = {toks[i][2] : i \in withPath}
            /\ \A v \in DOMAIN res.method_counts :
                  res.method_counts[v] = Cardinality({i \in withMethod : toks[i][1] = v})
            /\ \A v \in DOMAIN res.path_counts :
                  res.path_counts[v] = Cardinality({i \in withPath : toks[i][2] = v})
            /\ \A v \in DOMAIN res.status_counts :
                  res.status_counts[v] =
                      Cardinality({i \in DOMAIN log_entries : log_entries[i].status = v})
            /\ res.path_top \subseteq DOMAIN res.path_counts
            /\ Cardinality(res.path_top) = Min2(TopN, Cardinality(DOMAIN res.path_counts))

C10_Witness ==
    /\ RequestsCounted
    /\ Len(log_entries) = 3
    /\ log_entries[1].request = REQ_NONE
    /\ log_entries[2].request = REQ_ONE
    /\ log_entries[3].request = REQ_FULL
    /\ SumCounts(res.method_counts) = 2
    /\ SumCounts(res.path_counts) = 1
    /\ SumCounts(res.status_counts) = 3

====
